---- MODULE Spec2Model ----
(***************************************************************************)
(* autopackager: configuration loading with `${name}` substitution         *)
(* (parse_commands_from_yaml, substitute_variables, deserialize_config)    *)
(* and command execution (execute_commands and the three executors) of     *)
(* src/src/packager_command.rs.                                            *)
(*                                                                         *)
(* Text is a sequence of one-character strings.  The structural parts of   *)
(* a YAML document (the indicators that open a field) are single symbols   *)
(* of the text: they contain no `$`, `{`, `}` and start with a line break, *)
(* so the regex of substitute_variables never matches across them.         *)
(***************************************************************************)
EXTENDS Integers, Sequences, FiniteSets, TLC

VARIABLES
    pc,             \* position of the running function
    file_ok,        \* fs::read_to_string(file_path) succeeds
    file_text,      \* content of the configuration file
    if_use_define,  \* parameter of parse_commands_from_yaml
    yaml_content,   \* local yaml_content
    config,         \* local config (first decode), define_items and command
    valuemap,       \* local valuemap: HashMap<String, String>
    idx,            \* number of define_items the running loop has visited
    outcome,        \* what parse_commands_from_yaml gives its caller
    subst_ret,      \* what a direct call of substitute_variables returned
    fs,             \* file system: path -> content of each regular file
    env,            \* what spawning processes does on this machine
    commands,       \* parameter of execute_commands
    pos,            \* number of commands the iterator has consumed
    errors,         \* the Right collection of partition_map
    attempted,      \* indexes of the commands whose executor has been invoked
    ret             \* what execute_commands gives its caller

loadVars == <<file_ok, file_text, if_use_define, yaml_content, config, valuemap,
              idx, outcome, subst_ret>>
execVars == <<fs, env, commands, pos, errors, attempted, ret>>
vars == <<pc, loadVars, execVars>>

----------------------------------------------------------------------------
(* Bounds of the model *)

MaxDefs == 2        \* define_items per document
MaxEntries == 1     \* command entries per document
MaxCmds == 3        \* commands per list given to execute_commands
StackDepth == 5     \* nested calls the thread's stack holds (scaled down; a chain
                    \* of distinct keys needs one frame per key and one more)

----------------------------------------------------------------------------
(* Text *)

\* \w of the alphabet
WordChars == {"A", "B", "C", "U", "1", "2", "3", "a", "e", "f", "l", "r", "s", "t", "u"}

KeyTag == "\n- key: "
ValueTag == "\n  value: "
RunTag == "\n- type: Run\n  command: "
CopyTag == "\n- type: Copy\n  source: "
DestinationTag == "\n  destination: "
IgnoreTag == "\n  gitignore_path: "
UseTag == "\n  use_gitignore: "
Tags == {KeyTag, ValueTag, RunTag, CopyTag, DestinationTag, IgnoreTag, UseTag}

True == <<"t", "r", "u", "e">>
False == <<"f", "a", "l", "s", "e">>

Ref(k) == <<"$", "{">> \o k \o <<"}">>

\* Does `\$\{(\w+)\}` match s starting at position i, ending at position j?
MatchAt(s, i, j) ==
    /\ i + 3 <= j /\ j <= Len(s)
    /\ s[i] = "$" /\ s[i + 1] = "{" /\ s[j] = "}"
    /\ \A k \in (i + 2)..(j - 1) : s[k] \in WordChars

NoMatch == [found |-> FALSE, start |-> 0, stop |-> 0, name |-> <<>>]

\* re.captures(&result): the leftmost match, with capture group 1
Captures(s) ==
    LET starts == {i \in 1..Len(s) : \E j \in 1..Len(s) : MatchAt(s, i, j)}
    IN  IF starts = {} THEN NoMatch
        ELSE LET i == CHOOSE a \in starts : \A b \in starts : a <= b
                 j == CHOOSE e \in 1..Len(s) : MatchAt(s, i, e)
             IN  [found |-> TRUE, start |-> i, stop |-> j,
                  name |-> SubSeq(s, i + 2, j - 1)]

\* result.replace_range(range.start..range.end, &subst_result)
ReplaceRange(s, i, j, by) == SubSeq(s, 1, i - 1) \o by \o SubSeq(s, j + 1, Len(s))

Returned(s) == [ok |-> TRUE, str |-> s]
StackOverflow == [ok |-> FALSE, str |-> <<>>]

\* The body of substitute_variables running in the frame at the given depth.
\* result is the local `result`; a call nested deeper than the stack holds
\* overflows the stack, which aborts the process.
RECURSIVE SubstFrame(_, _, _)
SubstFrame(result, map, depth) ==
    IF depth > StackDepth THEN StackOverflow
    ELSE LET caps == Captures(result)
         IN  IF ~caps.found THEN Returned(result)
             ELSE IF caps.name \notin DOMAIN map THEN Returned(result)   \* break
             ELSE LET subst_result == SubstFrame(map[caps.name], map, depth + 1)
                  IN  IF ~subst_result.ok THEN StackOverflow
                      ELSE SubstFrame(
                             ReplaceRange(result, caps.start, caps.stop,
                                          subst_result.str),
                             map, depth)

\* Faulty variant: `if let` for `while let`, only the first reference is replaced
SubstituteFirstOnly(value, map) ==
    LET caps == Captures(value)
    IN  IF ~caps.found \/ caps.name \notin DOMAIN map THEN Returned(value)
        ELSE LET subst_result == SubstFrame(map[caps.name], map, 2)
             IN  IF ~subst_result.ok THEN StackOverflow
                 ELSE Returned(ReplaceRange(value, caps.start, caps.stop,
                                            subst_result.str))

substitute_variables(value, map) == SubstFrame(value, map, 1)

----------------------------------------------------------------------------
(* The configuration document and its decoding *)

EmptyConfig == [define_items |-> <<>>, command |-> <<>>]

\* The fields of a text: each starts at a structural symbol and runs to the next.
RECURSIVE Fields(_)
Fields(text) ==
    IF text = <<>> THEN <<>>
    ELSE LET nexts == {i \in 2..Len(text) : text[i] \in Tags}
             e == IF nexts = {} THEN Len(text) + 1
                  ELSE CHOOSE a \in nexts : \A b \in nexts : a <= b
         IN  <<[tag |-> text[1], body |-> SubSeq(text, 2, e - 1)]>>
             \o Fields(SubSeq(text, e, Len(text)))

Digits == {"1", "2", "3"}

\* Does the plain scalar read as a number: digits with at most one point,
\* then possibly an exponent?
IsNumber(s) ==
    \E m \in 1..Len(s) :
        /\ \A i \in 1..m : s[i] \in Digits \cup {"."}
        /\ Cardinality({i \in 1..m : s[i] = "."}) <= 1
        /\ \E i \in 1..m : s[i] \in Digits
        /\ \/ m = Len(s)
           \/ /\ m + 2 <= Len(s)
              /\ s[m + 1] = "e"
              /\ \A i \in (m + 2)..Len(s) : s[i] \in Digits

\* The type a plain scalar has when it is read without a type to expect
ScalarType(s) ==
    IF s = <<>> THEN "unit"
    ELSE IF s \in {True, False} THEN "bool"
    ELSE IF IsNumber(s) THEN "number"
    ELSE "string"

\* The tags that open an entry of a list; the others continue an entry
Starters == {KeyTag, RunTag, CopyTag}

\* The entries of a sequence of fields: each runs from the field that opens
\* it to the next field that opens one.
RECURSIVE Items(_)
Items(f) ==
    IF f = <<>> THEN <<>>
    ELSE LET nexts == {i \in 2..Len(f) : f[i].tag \in Starters}
             e == IF nexts = {} THEN Len(f) + 1
                  ELSE CHOOSE a \in nexts : \A b \in nexts : a <= b
         IN  <<SubSeq(f, 1, e - 1)>> \o Items(SubSeq(f, e, Len(f)))

\* The fields of the given name that continue an entry
Field(item, tag) ==
    LET Named(x) == x.tag = tag
    IN  SelectSeq(Tail(item), Named)

NoItem == [ok |-> FALSE, value |-> <<>>]

\* DefineItem, read as such: key and value are found by name, once each (a
\* field twice is an error, as is a missing one), and take any scalar; a
\* field of another name is skipped.
DefineItemOf(item) ==
    IF item[1].tag = KeyTag /\ Len(Field(item, ValueTag)) = 1
    THEN [ok |-> TRUE,
          value |-> [key |-> item[1].body, value |-> Field(item, ValueTag)[1].body]]
    ELSE NoItem

\* Command is tagged by `type` (line 30), so an entry is read as a whole
\* before its variant is known and every scalar of it has the type it reads
\* as: a String field takes a string only, use_gitignore a boolean only.  The
\* fields of the variant are found by name, once each, in any order; a field
\* of another name is skipped.
CommandOf(item) ==
    IF item[1].tag = RunTag
    THEN IF ScalarType(item[1].body) = "string"
         THEN [ok |-> TRUE, value |-> [type |-> "Run", command |-> item[1].body]]
         ELSE NoItem
    ELSE IF item[1].tag = CopyTag
    THEN LET destination == Field(item, DestinationTag)
             gitignore_path == Field(item, IgnoreTag)
             use_gitignore == Field(item, UseTag)
         IN  IF /\ Len(destination) = 1 /\ Len(gitignore_path) = 1
                /\ Len(use_gitignore) = 1
                /\ ScalarType(item[1].body) = "string"
                /\ ScalarType(destination[1].body) = "string"
                /\ ScalarType(gitignore_path[1].body) = "string"
                /\ ScalarType(use_gitignore[1].body) = "bool"
             THEN [ok |-> TRUE,
                   value |-> [type |-> "Copy", source |-> item[1].body,
                              destination |-> destination[1].body,
                              gitignore_path |-> gitignore_path[1].body,
                              use_gitignore |-> use_gitignore[1].body = True]]
             ELSE NoItem
    ELSE NoItem

\* serde_yaml::from_str::<Config>: the entries of define_items, which are the
\* leading entries opened by `key`, then the entries of command.
from_str(yaml) ==
    LET items == Items(Fields(yaml))
        nd == Cardinality({i \in 1..Len(items) :
                             \A j \in 1..i : items[j][1].tag = KeyTag})
        define_items == [i \in 1..nd |-> DefineItemOf(items[i])]
        command == [i \in 1..(Len(items) - nd) |-> CommandOf(items[nd + i])]
    IN  IF /\ \A i \in 1..Len(define_items) : define_items[i].ok
           /\ \A i \in 1..Len(command) : command[i].ok
        THEN [ok |-> TRUE,
              config |->
                [define_items |-> [i \in 1..Len(define_items) |-> define_items[i].value],
                 command |-> [i \in 1..Len(command) |-> command[i].value]]]
        ELSE [ok |-> FALSE, config |-> EmptyConfig]

\* Ok(serde_yaml::from_str(yaml).unwrap()): a decode error panics
deserialize_config(yaml) ==
    LET r == from_str(yaml)
    IN  [kind |-> IF r.ok THEN "Ok" ELSE "panic", config |-> r.config]

\* The text of a document with these define_items and command entries
RECURSIVE EncodeDefs(_)
EncodeDefs(defs) ==
    IF defs = <<>> THEN <<>>
    ELSE <<KeyTag>> \o Head(defs).key \o <<ValueTag>> \o Head(defs).value
         \o EncodeDefs(Tail(defs))

RECURSIVE EncodeEntries(_)
EncodeEntries(entries) ==
    IF entries = <<>> THEN <<>>
    ELSE (IF Head(entries).type = "Run"
          THEN <<RunTag>> \o Head(entries).command
          ELSE <<CopyTag>> \o Head(entries).source
               \o <<DestinationTag>> \o Head(entries).destination
               \o <<IgnoreTag>> \o Head(entries).gitignore_path
               \o <<UseTag>> \o Head(entries).use_gitignore)
         \o EncodeEntries(Tail(entries))

Encode(defs, entries) == EncodeDefs(defs) \o EncodeEntries(entries)

SeqsUpTo(S, n) == UNION {[1..m -> S] : m \in 0..n}

\* The documents the configuration file is drawn from
Keys == {<<"A">>, <<"B">>, <<"C">>}
Values == {<<"1">>, True, Ref(<<"A">>), Ref(<<"B">>), Ref(<<"U">>) \o Ref(<<"B">>)}
WrittenEntries ==
    [type : {"Run"}, command : {<<"1">> \o Ref(<<"A">>), Ref(<<"U">>) \o Ref(<<"A">>)}]
    \cup [type : {"Copy"}, source : {<<"s">>}, destination : {Ref(<<"B">>)},
          gitignore_path : {<<"s">>}, use_gitignore : {True, Ref(<<"A">>)}]
Malformed == {<<KeyTag, "A">>, <<ValueTag, "1">>, <<"1">>}
\* Documents with a field the entry does not have, and with fields out of order
Irregular ==
    {<<KeyTag, "A", ValueTag, "t", DestinationTag, "s", RunTag>> \o Ref(<<"A">>)
        \o <<UseTag>> \o True,
     <<CopyTag, "s", UseTag>> \o True \o <<IgnoreTag, "s", DestinationTag>>
        \o Ref(<<"U">>)}

Documents ==
    {Encode(d, e) : d \in SeqsUpTo([key : Keys, value : Values], MaxDefs),
                    e \in SeqsUpTo(WrittenEntries, MaxEntries)}
    \cup Malformed \cup Irregular

----------------------------------------------------------------------------
(* parse_commands_from_yaml *)

NoOutcome == [kind |-> "none", config |-> EmptyConfig]
NoResult == [ok |-> FALSE, str |-> <<"?">>]
EmptyMap == [k \in {} |-> <<>>]

\* HashMap::insert
Insert(map, k, v) == [x \in DOMAIN map \cup {k} |-> IF x = k THEN v ELSE map[x]]

IdleExec ==
    /\ fs = EmptyMap /\ env = EmptyMap /\ commands = <<>> /\ pos = 0
    /\ errors = <<>> /\ attempted = <<>> /\ ret = "none"

InitLoad ==
    /\ pc = "read"
    /\ file_ok \in BOOLEAN
    /\ file_text \in Documents
    /\ ~file_ok => file_text = <<>>
    /\ if_use_define \in BOOLEAN
    /\ yaml_content = <<>>
    /\ config = EmptyConfig
    /\ valuemap = EmptyMap
    /\ idx = 0
    /\ outcome = NoOutcome
    /\ subst_ret = NoResult
    /\ IdleExec

\* line 229: fs::read_to_string(file_path)?
ReadFile ==
    /\ pc = "read"
    /\ IF file_ok
       THEN /\ yaml_content' = file_text
            /\ pc' = IF if_use_define THEN "decode_defines" ELSE "decode"
            /\ outcome' = outcome
       ELSE /\ outcome' = [kind |-> "Err", config |-> EmptyConfig]
            /\ pc' = "returned"
            /\ yaml_content' = yaml_content
    /\ UNCHANGED <<file_ok, file_text, if_use_define, config, valuemap, idx, subst_ret, execVars>>

\* line 233: the first decode, which yields define_items
DecodeDefines ==
    /\ pc = "decode_defines"
    /\ LET r == deserialize_config(yaml_content)
       IN  IF r.kind = "Ok"
           THEN /\ config' = r.config
                /\ pc' = "fill"
                /\ outcome' = outcome
           ELSE /\ outcome' = [kind |-> r.kind, config |-> EmptyConfig]
                /\ pc' = IF r.kind = "panic" THEN "aborted" ELSE "returned"
                /\ config' = config
    /\ idx' = 0
    /\ UNCHANGED <<file_ok, file_text, if_use_define, yaml_content, valuemap, subst_ret,
                   execVars>>

\* Faulty variant: the map is not filled before the values are resolved
FillMapSkipped ==
    /\ pc = "fill"
    /\ pc' = "resolve"
    /\ idx' = 0
    /\ UNCHANGED <<file_ok, file_text, if_use_define, yaml_content, config, valuemap,
                   outcome, subst_ret, execVars>>

\* lines 237-239: every raw value goes into the map
FillMap ==
    /\ pc = "fill"
    /\ IF idx < Len(config.define_items)
       THEN LET item == config.define_items[idx + 1]
            IN  /\ valuemap' = Insert(valuemap, item.key, item.value)
                /\ idx' = idx + 1
                /\ pc' = pc
       ELSE /\ pc' = "resolve"
            /\ idx' = 0
            /\ valuemap' = valuemap
    /\ UNCHANGED <<file_ok, file_text, if_use_define, yaml_content, config, outcome,
                   subst_ret, execVars>>

\* Faulty variant: the substituted value is not stored
ResolveMapNoStore ==
    /\ pc = "resolve"
    /\ pc' = "substitute"
    /\ UNCHANGED <<file_ok, file_text, if_use_define, yaml_content, config, valuemap,
                   idx, outcome, subst_ret, execVars>>

\* lines 242-245: every value is substituted against the map and stored again
ResolveMap ==
    /\ pc = "resolve"
    /\ IF idx < Len(config.define_items)
       THEN LET item == config.define_items[idx + 1]
                subst_value == substitute_variables(item.value, valuemap)
            IN  IF subst_value.ok
                THEN /\ valuemap' = Insert(valuemap, item.key, subst_value.str)
                     /\ idx' = idx + 1
                     /\ pc' = pc
                     /\ outcome' = outcome
                ELSE /\ pc' = "aborted"
                     /\ outcome' = [kind |-> "stack overflow", config |-> EmptyConfig]
                     /\ UNCHANGED <<valuemap, idx>>
       ELSE /\ pc' = "substitute"
            /\ UNCHANGED <<valuemap, idx, outcome>>
    /\ UNCHANGED <<file_ok, file_text, if_use_define, yaml_content, config, subst_ret,
                   execVars>>

\* lines 253-255: the whole text is substituted
SubstituteText ==
    /\ pc = "substitute"
    /\ LET subst_text == substitute_variables(yaml_content, valuemap)
       IN  IF subst_text.ok
           THEN /\ yaml_content' = subst_text.str
                /\ pc' = "decode"
                /\ outcome' = outcome
           ELSE /\ pc' = "aborted"
                /\ outcome' = [kind |-> "stack overflow", config |-> EmptyConfig]
                /\ yaml_content' = yaml_content
    /\ UNCHANGED <<file_ok, file_text, if_use_define, config, valuemap, idx, subst_ret, execVars>>

\* line 293: deserialize_config(&yaml_content)
DecodeFinal ==
    /\ pc = "decode"
    /\ LET r == deserialize_config(yaml_content)
       IN  /\ outcome' = r
           /\ pc' = IF r.kind = "panic" THEN "aborted" ELSE "returned"
    /\ UNCHANGED <<file_ok, file_text, if_use_define, yaml_content, config, valuemap,
                   idx, subst_ret, execVars>>

NextLoad ==
    \/ ReadFile
    \/ DecodeDefines
    \/ FillMap
    \/ ResolveMap
    \/ SubstituteText
    \/ DecodeFinal

SpecLoad == InitLoad /\ [][NextLoad]_vars

----------------------------------------------------------------------------
(* substitute_variables called on its own *)

SubstValues == Values \cup {Ref(<<"A">>) \o <<".", "2">>, Ref(<<"B">>) \o <<".", "3">>}
SubstTexts == {<<"1">> \o Ref(<<"A">>), Ref(<<"U">>) \o Ref(<<"A">>), Ref(<<"C">>),
               Ref(<<"A">>) \o Ref(<<"C">>), <<"1", ".", "2">>}

\* Every table with keys among Keys
Tables == UNION {[D -> SubstValues] : D \in SUBSET Keys}

InitSubst ==
    /\ pc = "call"
    /\ yaml_content \in SubstTexts
    /\ valuemap \in Tables
    /\ file_ok = TRUE /\ file_text = <<>> /\ if_use_define = TRUE
    /\ config = EmptyConfig /\ idx = 0 /\ outcome = NoOutcome
    /\ subst_ret = NoResult
    /\ IdleExec

CallSubstitute ==
    /\ pc = "call"
    /\ subst_ret' = substitute_variables(yaml_content, valuemap)
    /\ pc' = IF subst_ret'.ok THEN "called" ELSE "aborted"
    /\ UNCHANGED <<file_ok, file_text, if_use_define, yaml_content, config, valuemap,
                   idx, outcome, execVars>>

NextSubst == CallSubstitute

SpecSubst == InitSubst /\ [][NextSubst]_vars

----------------------------------------------------------------------------
(* The file system *)

\* A path is a sequence of names, a name and a content a sequence of characters.
\* fs maps the path of every regular file to its content; the directories are
\* the proper prefixes of these paths.

SrcDir == <<"s", "r", "c">>
OutDir == <<"o", "u", "t">>
NilDir == <<"n", "i", "l">>
SubDir == <<"s", "u", "b">>
LockName == <<"l", "o", "c", "k">>
IgnoreName == <<"i", "g">>
Star == <<"*">>
BadByte == "\\xFF"      \* a byte that is not valid UTF-8

FileA == <<SrcDir, <<"a">>>>
FileEnv == <<SrcDir, <<".", "e">>>>
FileB == <<SrcDir, SubDir, <<"b">>>>
FileIgnore == <<SrcDir, IgnoreName>>
FileZ == <<SrcDir, <<"z">>>>
FileLock == <<LockName>>

Content ==
    (FileA :> <<"1", ".", "1">>) @@ (FileEnv :> <<"1">>) @@ (FileB :> <<"2", "1">>)
    @@ (FileIgnore :> SubDir) @@ (FileZ :> <<BadByte>>) @@ (FileLock :> <<"1">>)

TreeOf(files) == [p \in files |-> Content[p]]

IsPrefix(p, q) == Len(p) <= Len(q) /\ SubSeq(q, 1, Len(p)) = p

\* What fs holds at the path of a directory that has no entry
Directory == <<"/">>

\* Path::is_file
IsFile(p, f) == p \in DOMAIN f /\ f[p] # Directory

Files(f) == {p \in DOMAIN f : f[p] # Directory}

Dirs(f) ==
    UNION {{SubSeq(p, 1, n) : n \in 1..(Len(p) - 1)} : p \in DOMAIN f}
    \cup {p \in DOMAIN f : f[p] = Directory}

\* Path::exists
Exists(p, f) == p \in DOMAIN f \/ p \in Dirs(f)

\* The entries of directory p
Children(p, f) ==
    {q \in DOMAIN f \cup Dirs(f) : Len(q) = Len(p) + 1 /\ IsPrefix(p, q)}

\* The file at p gets the content; a directory above it is empty no longer
Write(f, p, content) ==
    [q \in (DOMAIN f \ {d \in DOMAIN f : f[d] = Directory /\ IsPrefix(d, p)}) \cup {p} |->
        IF q = p THEN content ELSE f[q]]

\* fs::create_dir_all on a path no regular file is in the way of
MakeDir(f, p) == IF p = <<>> \/ p \in Dirs(f) THEN f ELSE Write(f, p, Directory)

\* The characters of names, in byte order
Chars == <<".", "1", "2", "3", "A", "B", "C", "U", "a", "b", "c", "e", "f", "g", "i",
           "k", "l", "n", "o", "r", "s", "t", "u", "z">>

Rank(c) == CHOOSE i \in 1..Len(Chars) : Chars[i] = c

\* Alphabetical order of names, and of paths name by name
NameBefore(a, b) ==
    \E n \in 0..Len(a) :
        /\ n <= Len(b)
        /\ SubSeq(a, 1, n) = SubSeq(b, 1, n)
        /\ \/ n = Len(a) /\ n < Len(b)
           \/ n < Len(a) /\ n < Len(b) /\ Rank(a[n + 1]) < Rank(b[n + 1])

PathBefore(p, q) ==
    \E n \in 0..Len(p) :
        /\ n <= Len(q)
        /\ SubSeq(p, 1, n) = SubSeq(q, 1, n)
        /\ \/ n = Len(p) /\ n < Len(q)
           \/ n < Len(p) /\ n < Len(q) /\ NameBefore(p[n + 1], q[n + 1])

RECURSIVE SortPaths(_)
SortPaths(S) ==
    IF S = {} THEN <<>>
    ELSE LET first == CHOOSE p \in S : \A q \in S \ {p} : PathBefore(p, q)
         IN  <<first>> \o SortPaths(S \ {first})

\* Every order a set can be gone through in
Orders(S) ==
    {o \in [1..Cardinality(S) -> S] : \A i, j \in 1..Cardinality(S) : o[i] = o[j] => i = j}

Ok(f) == [res |-> "Ok", msg |-> "", fs |-> f]
Err(m, f) == [res |-> "Err", msg |-> m, fs |-> f]
Panic(m, f) == [res |-> "panic", msg |-> m, fs |-> f]

----------------------------------------------------------------------------
(* execute_copy *)

Hidden(name) == name # <<>> /\ name[1] = "."

\* line 78: the names the ignore file of directory dir excludes, below dir at
\* any depth.  The content of an ignore file is one pattern, a name.  Without
\* use_gitignore no ignore file is read.
Patterns(copy, f, dir) ==
    IF copy.use_gitignore /\ IsFile(Append(dir, copy.gitignore_path), f)
    THEN {f[Append(dir, copy.gitignore_path)]}
    ELSE {}

\* The ignore files of the directories above source are read as well
ParentPatterns(copy, f) ==
    UNION {Patterns(copy, f, SubSeq(copy.source, 1, n)) : n \in 0..(Len(copy.source) - 1)}

\* lines 98-107: one file is copied.  The target is the destination, a `/`
\* and the path relative to source; for source itself, a regular file, that
\* path is empty and the target names a directory.  create_dir_all fails at a
\* regular file, fs::copy onto a directory; fs::copy truncates the target
\* before it reads the source, so a file copied onto itself ends up empty.
CopyFile(copy, entry_path, f) ==
    LET relative_path == SubSeq(entry_path, Len(copy.source) + 1, Len(entry_path))
        target_path == copy.destination \o relative_path
        parent_path == SubSeq(target_path, 1, Len(target_path) - 1)
    IN  IF \E n \in 1..(Len(parent_path) - 1) : IsFile(SubSeq(parent_path, 1, n), f)
        THEN Err("Not a directory (os error 20)", f)
        ELSE IF IsFile(parent_path, f) THEN Err("File exists (os error 17)", f)
        ELSE LET made == MakeDir(f, parent_path)
             IN  IF relative_path = <<>>
                 THEN Err("Is a directory (os error 21)", made)
                 ELSE IF target_path \in Dirs(made)
                      THEN Err("Is a directory (os error 21)", made)
                      ELSE Ok(Write(made, target_path,
                                    IF target_path = entry_path THEN <<>>
                                    ELSE f[entry_path]))

\* lines 75-112: the walk.  source itself is never skipped; below it the
\* walker skips hidden entries (WalkBuilder does unless .hidden(false) is set,
\* which neither branch does) and those an ignore file excludes.  The walker
\* reads a directory when it enters it, with its ignore file, and yields the
\* entries in the order the directory holds them, which is any order: what a
\* copy has written into a directory of the source is walked, or is not.  The
\* first error ends the walk and leaves what has been copied.
RECURSIVE VisitAll(_, _, _, _)
RECURSIVE Visit(_, _, _, _)
VisitAll(copy, entries, patterns, results) ==
    IF entries = <<>> THEN results
    ELSE VisitAll(copy, Tail(entries), patterns,
                  UNION {Visit(copy, Head(entries), patterns, r) : r \in results})

Visit(copy, entry_path, patterns, r) ==
    IF r.res # "Ok" THEN {r}
    ELSE IF IsFile(entry_path, r.fs) THEN {CopyFile(copy, entry_path, r.fs)}
    ELSE LET below == patterns \cup Patterns(copy, r.fs, entry_path)
             entries == {q \in Children(entry_path, r.fs) :
                            ~Hidden(q[Len(q)]) /\ q[Len(q)] \notin below}
         IN  UNION {VisitAll(copy, order, below, {r}) : order \in Orders(entries)}

\* lines 61-115: every result the copy can have
execute_copy(copy, f) ==
    IF ~Exists(copy.source, f) THEN {Err("No such source directory", f)}
    ELSE Visit(copy, copy.source, ParentPatterns(copy, f), Ok(f))

----------------------------------------------------------------------------
(* execute_replace *)

\* Regex::new: the patterns of the model are literal texts; an open group
\* that is never closed is a syntax error.
RegexValid(regex) == \A n \in 1..Len(regex) : regex[n] # "("

\* regex.replace_all(content, replacement) for a literal pattern; the empty
\* pattern matches before every character and at the end
RECURSIVE ReplaceAll(_, _, _)
ReplaceAll(content, regex, replacement) ==
    IF regex = <<>>
    THEN IF content = <<>> THEN replacement
         ELSE replacement \o <<Head(content)>>
              \o ReplaceAll(Tail(content), regex, replacement)
    ELSE IF Len(content) < Len(regex) THEN content
    ELSE IF SubSeq(content, 1, Len(regex)) = regex
         THEN replacement
              \o ReplaceAll(SubSeq(content, Len(regex) + 1, Len(content)),
                            regex, replacement)
         ELSE <<Head(content)>> \o ReplaceAll(Tail(content), regex, replacement)

\* glob(): `***` is a pattern error
GlobValid(pattern) == \A n \in 1..Len(pattern) : pattern[n] # <<"*", "*", "*">>

Matches(pattern, p) ==
    /\ Len(pattern) = Len(p)
    /\ \A n \in 1..Len(p) : pattern[n] = Star \/ pattern[n] = p[n]

\* The existing paths the pattern matches, in alphabetical order
GlobPaths(pattern, f) ==
    SortPaths({p \in DOMAIN f \cup Dirs(f) : Matches(pattern, p)})

\* lines 141-160: rewrite the files in order; a file that cannot be read as
\* text ends the command, the files before it stay rewritten
RECURSIVE Rewrite(_, _, _)
Rewrite(paths, replace, f) ==
    IF paths = <<>> THEN Ok(f)
    ELSE LET path == Head(paths)
         IN  IF ~IsFile(path, f) THEN Rewrite(Tail(paths), replace, f)
             ELSE IF \E n \in 1..Len(f[path]) : f[path][n] = BadByte
                  THEN Err("io", f)
                  ELSE Rewrite(Tail(paths), replace,
                               Write(f, path,
                                     ReplaceAll(f[path], replace.regex,
                                                replace.replacement)))

\* Faulty variant: an empty expansion is not checked
ExecuteReplaceUnchecked(replace, f) ==
    IF ~RegexValid(replace.regex) THEN Err("regex", f)
    ELSE IF ~GlobValid(replace.source) THEN Err("pattern", f)
    ELSE Rewrite(GlobPaths(replace.source, f), replace, f)

execute_replace(replace, f) ==
    IF ~RegexValid(replace.regex) THEN Err("regex", f)
    ELSE IF ~GlobValid(replace.source) THEN Err("pattern", f)
    ELSE LET path_vec == GlobPaths(replace.source, f)
         IN  IF Len(path_vec) = 0 THEN Err("Invalid path. No files found.", f)
             ELSE Rewrite(path_vec, replace, f)

----------------------------------------------------------------------------
(* execute_run *)

\* shell_words::split over letters, blanks and single quotes
RECURSIVE SplitFrom(_, _, _, _, _)
SplitFrom(s, cur, inword, inquote, words) ==
    IF s = <<>>
    THEN IF inquote THEN [ok |-> FALSE, words |-> <<>>]
         ELSE [ok |-> TRUE, words |-> IF inword THEN Append(words, cur) ELSE words]
    ELSE LET c == Head(s)
         IN  IF inquote
             THEN IF c = "'" THEN SplitFrom(Tail(s), cur, TRUE, FALSE, words)
                  ELSE SplitFrom(Tail(s), Append(cur, c), TRUE, TRUE, words)
             ELSE IF c = "'" THEN SplitFrom(Tail(s), cur, TRUE, TRUE, words)
             ELSE IF c = " "
                  THEN SplitFrom(Tail(s), <<>>, FALSE, FALSE,
                                 IF inword THEN Append(words, cur) ELSE words)
                  ELSE SplitFrom(Tail(s), Append(cur, c), TRUE, FALSE, words)

ShellSplit(command) == SplitFrom(command, <<>>, FALSE, FALSE, <<>>)

\* The programs on the machine and their exit status; the commands built
\* into the shell
Programs == (<<"t">> :> 0) @@ (<<"f">> :> 1)
Builtins == {<<"c">>}

\* sh -c script: the shell splits the script into words itself and runs the
\* first as a command; a script without words does nothing and succeeds
ShStatus(script) ==
    LET split == ShellSplit(script)
    IN  IF ~split.ok THEN "failure"                    \* syntax error
        ELSE IF split.words = <<>> THEN "success"
        ELSE LET name == split.words[1]
             IN  IF name \in DOMAIN Programs
                 THEN IF Programs[name] = 0 THEN "success" ELSE "failure"
                 ELSE IF name \in Builtins THEN "success"
                 ELSE "failure"                        \* not found

\* lines 171-183: the exit status of the process, or a panic.  When words[0]
\* cannot be spawned as a program it is given to the shell as its script.
RunStatus(run, e) ==
    LET split == ShellSplit(run.command)
    IN  IF ~split.ok THEN "panic"                      \* unwrap
        ELSE IF split.words = <<>> THEN "panic"        \* words[0]
        ELSE LET program == split.words[1]
             IN  IF program \in DOMAIN Programs
                 THEN IF Programs[program] = 0 THEN "success" ELSE "failure"
                 ELSE IF ~e.sh THEN "panic"            \* expect
                 ELSE ShStatus(program)

execute_run(run, e, f) ==
    LET status == RunStatus(run, e)
    IN  IF status = "panic" THEN Panic("panic", f)
        ELSE IF status = "success" THEN Ok(f)
        ELSE Err("command failed with status", f)

----------------------------------------------------------------------------
(* execute_commands *)

\* lines 203-207: the executor of the command's variant, and the results it
\* can have
Execute(command, e, f) ==
    IF command.type = "Copy" THEN execute_copy(command, f)
    ELSE IF command.type = "Replace" THEN {execute_replace(command, f)}
    ELSE {execute_run(command, e, f)}

CopyCommands ==
    [type : {"Copy"}, source : {<<SrcDir>>, <<NilDir>>, FileA},
     destination : {<<OutDir>>, FileLock, <<SrcDir>>, <<SrcDir, SubDir>>},
     gitignore_path : {IgnoreName}, use_gitignore : BOOLEAN]
ReplaceCommands ==
    [type : {"Replace"},
     source : {<<SrcDir, Star>>, <<NilDir, Star>>, <<SrcDir, SubDir, <<"a">>>>,
               <<SrcDir, <<"*", "*", "*">>>>},
     regex : {<<"1">>, <<"(">>, <<>>}, replacement : {<<"3", "1">>}]
RunCommands ==
    [type : {"Run"},
     command : {<<"t">>, <<"f">>, <<"c">>, <<"x">>, <<"t", " ", "'", "f">>,
                <<"t", " ", "'", "f", " ", "'">>, <<" ">>, <<"'", "'">>,
                <<"'", " ", "'">>, <<"'", "f", " ", "t", "'">>}]

\* The commands of the lists given to execute_commands
SomeCommands ==
    {c \in CopyCommands : /\ c.destination = <<OutDir>>
                          /\ c.source # <<SrcDir>> => c.use_gitignore}
    \cup {c \in ReplaceCommands : /\ c.regex = <<"1">>
                                    /\ c.source \in {<<SrcDir, Star>>, <<NilDir, Star>>}}
    \cup RunCommands

AllFiles == {FileA, FileEnv, FileB, FileIgnore, FileZ, FileLock}
SomeTrees == {TreeOf({}), TreeOf({FileA, FileEnv}), TreeOf({FileA, FileB, FileIgnore}),
              TreeOf({FileA, FileZ})}
AllTrees == {TreeOf(files) : files \in SUBSET AllFiles}

IdleLoad ==
    /\ file_ok = TRUE /\ file_text = <<>> /\ if_use_define = TRUE
    /\ yaml_content = <<>> /\ config = EmptyConfig /\ valuemap = EmptyMap
    /\ idx = 0 /\ outcome = NoOutcome /\ subst_ret = NoResult

InitExecWith(lists, trees, envs) ==
    /\ pc = "iterate"
    /\ commands \in lists
    /\ fs \in trees
    /\ env \in envs
    /\ pos = 0
    /\ errors = <<>>
    /\ attempted = <<>>
    /\ ret = "none"
    /\ IdleLoad

\* The machines: with and without a shell to fall back on
Machines == [sh : BOOLEAN]

InitExec == InitExecWith(SeqsUpTo(SomeCommands, MaxCmds), SomeTrees, {[sh |-> TRUE]})
InitCopy == InitExecWith({<<c>> : c \in CopyCommands}, AllTrees, Machines)
InitReplace == InitExecWith({<<c>> : c \in ReplaceCommands}, AllTrees, Machines)

\* lines 201-215: the iterator takes the next command, its executor runs to
\* its end and partition_map puts an error into errors.  A panic of the
\* executor unwinds through execute_commands.
NextCommand ==
    /\ pc = "iterate"
    /\ pos < Len(commands)
    /\ \E r \in Execute(commands[pos + 1], env, fs) :
           /\ attempted' = Append(attempted, [cmd |-> pos + 1, res |-> r.res, msg |-> r.msg])
           /\ fs' = r.fs
           /\ pos' = pos + 1
           /\ errors' = IF r.res = "Err" THEN Append(errors, [msg |-> r.msg, of |-> pos + 1])
                        ELSE errors
           /\ pc' = IF r.res = "panic" THEN "aborted" ELSE pc
    /\ UNCHANGED <<env, commands, ret, loadVars>>

\* lines 217-223
ReturnResult ==
    /\ pc = "iterate"
    /\ pos = Len(commands)
    /\ ret' = IF errors = <<>> THEN "Ok" ELSE "Err"
    /\ pc' = "returned"
    /\ UNCHANGED <<fs, env, commands, pos, errors, attempted, loadVars>>

NextExec ==
    \/ NextCommand
    \/ ReturnResult

SpecExec == InitExec /\ [][NextExec]_vars
SpecCopy == InitCopy /\ [][NextExec]_vars
SpecReplace == InitReplace /\ [][NextExec]_vars

----------------------------------------------------------------------------
(* What the claims speak of *)

\* The names referenced in a text
RefsOf(s) ==
    {SubSeq(s, q[1] + 2, q[2] - 1) :
        q \in {r \in (1..Len(s)) \X (1..Len(s)) : MatchAt(s, r[1], r[2])}}

\* The definitions as a table of raw values (of a key declared twice, the last)
RECURSIVE RawMap(_)
RawMap(defs) ==
    IF defs = <<>> THEN EmptyMap
    ELSE Insert(RawMap(SubSeq(defs, 1, Len(defs) - 1)),
                defs[Len(defs)].key, defs[Len(defs)].value)

DistinctKeys(defs) == \A i, j \in 1..Len(defs) : i # j => defs[i].key # defs[j].key

\* The keys reached from the keys S by following references n times
RECURSIVE Reach(_, _, _)
Reach(S, map, n) ==
    IF n = 0 THEN S
    ELSE Reach(S \cup UNION {RefsOf(map[k]) \cap DOMAIN map : k \in S}, map, n - 1)

SelfReferencing(map) ==
    {k \in DOMAIN map :
        k \in Reach(RefsOf(map[k]) \cap DOMAIN map, map, Cardinality(DOMAIN map))}

Acyclic(map) == SelfReferencing(map) = {}

AllDefined(map) == \A k \in DOMAIN map : RefsOf(map[k]) \subseteq DOMAIN map

\* The text with every reference to a defined key replaced by the resolved
\* value of its definition (to the given nesting depth), every other reference
\* left as it is: the document "already substituted" by hand.
RECURSIVE Expand(_, _, _)
Expand(s, map, depth) ==
    LET c == Captures(s)
    IN  IF ~c.found THEN s
        ELSE SubSeq(s, 1, c.start - 1)
             \o (IF c.name \in DOMAIN map /\ depth > 0
                 THEN Expand(map[c.name], map, depth - 1)
                 ELSE Ref(c.name))
             \o Expand(SubSeq(s, c.stop + 1, Len(s)), map, depth)

Resolved(s, map) == Expand(s, map, Cardinality(DOMAIN map))

----------------------------------------------------------------------------
(* Claims about loading *)

\* C3 (as claimed): when a definition refers to itself, directly or through
\* other definitions, building the table and substituting the document end
\* without overflowing the stack, and the table entry of such a key keeps the
\* literal reference to the key.
C3_SelfReferenceTerminates ==
    (if_use_define /\ SelfReferencing(RawMap(config.define_items)) # {}) =>
        /\ outcome.kind # "stack overflow"
        /\ pc = "substitute" =>
              \A k \in SelfReferencing(RawMap(config.define_items)) :
                  k \in RefsOf(valuemap[k])

\* C5 (as claimed): once both loops over define_items are done, no value of
\* the table contains a reference to a key of the table.
C5_NoReferenceToTableKey ==
    pc = "substitute" =>
        \A k \in DOMAIN valuemap : RefsOf(valuemap[k]) \cap DOMAIN valuemap = {}

\* C5 (amended): once both loops over define_items are done, the first
\* reference in a value of the table is never a reference to a key of the
\* table; a reference to a key of the table can only follow a reference to an
\* undefined name, where substitution stopped.
C5_FirstReferenceUndefined ==
    pc = "substitute" =>
        \A k \in DOMAIN valuemap :
            Captures(valuemap[k]).found =>
                Captures(valuemap[k]).name \notin DOMAIN valuemap

C5_Witness ==
    /\ pc = "substitute"
    /\ Len(config.define_items) = 2
    /\ \E k \in DOMAIN valuemap : RefsOf(valuemap[k]) \cap DOMAIN valuemap # {}
    /\ \E i \in 1..2 : valuemap[config.define_items[i].key]
                          # config.define_items[i].value

\* C10 (as claimed): a reference to a definition declared later stays in the
\* table entry, literally.
C10_ForwardReferenceStays ==
    pc = "substitute" =>
        \A i, j \in 1..Len(config.define_items) :
            LET di == config.define_items[i]
                dj == config.define_items[j]
            IN  (i < j /\ DistinctKeys(config.define_items)
                       /\ dj.key \in RefsOf(di.value))
                    => dj.key \in RefsOf(valuemap[di.key])

\* C10 (amended): with distinct keys, the table entry of every definition is
\* its value resolved against the table of all definitions, those declared
\* after it included: position plays no part.
C10_ResolvedAgainstAll ==
    (pc = "substitute" /\ DistinctKeys(config.define_items)) =>
        \A i \in 1..Len(config.define_items) :
            LET di == config.define_items[i]
            IN  Returned(valuemap[di.key])
                    = substitute_variables(di.value, RawMap(config.define_items))

C10_Witness ==
    /\ pc = "substitute"
    /\ Len(config.define_items) = 2
    /\ DistinctKeys(config.define_items)
    /\ config.define_items[2].key \in RefsOf(config.define_items[1].value)
    /\ config.define_items[2].key \notin RefsOf(valuemap[config.define_items[1].key])
    /\ valuemap[config.define_items[1].key] = valuemap[config.define_items[2].key]

\* The define_items a text declares: its leading entries opened by `key`
Declared(yaml) ==
    LET items == Items(Fields(yaml))
        nd == Cardinality({i \in 1..Len(items) :
                             \A j \in 1..i : items[j][1].tag = KeyTag})
    IN  IF \A i \in 1..nd : DefineItemOf(items[i]).ok
        THEN [i \in 1..nd |-> DefineItemOf(items[i]).value]
        ELSE <<>>

\* What loading the substituted form of the document without substitution
\* gives: the text with every reference replaced by the resolved value of its
\* definition, decoded as it is
Expected == deserialize_config(Resolved(file_text, RawMap(Declared(file_text))))

Finished == pc \in {"returned", "aborted"}

\* C4 (as claimed): whenever the document with every reference replaced by
\* its definition's resolved value loads to a Config without substitution,
\* the document itself loads to an equal Config with substitution; without
\* substitution the text is decoded as read.
C4_RoundTrip ==
    /\ (Finished /\ file_ok /\ if_use_define /\ Expected.kind = "Ok") =>
          outcome = Expected
    /\ (pc \in {"decode", "returned", "aborted"} /\ file_ok /\ ~if_use_define) =>
          yaml_content = file_text
    /\ (Finished /\ file_ok /\ ~if_use_define) => outcome = deserialize_config(file_text)

\* C7 (as claimed): a file that cannot be read and a text that does not decode,
\* before or after substitution, make parse_commands_from_yaml return an error
\* to its caller; the process does not abort, and no Config comes out of a
\* text that does not decode.
C7_LoadErrorsAreReturned ==
    /\ (~file_ok /\ pc # "read") => (pc = "returned" /\ outcome.kind = "Err")
    /\ outcome.kind # "panic"
    /\ (pc \in {"returned", "aborted"} /\ file_ok /\ ~from_str(yaml_content).ok
          /\ outcome.kind # "stack overflow")
          => (pc = "returned" /\ outcome.kind = "Err")

----------------------------------------------------------------------------
(* Claims about substitute_variables *)

Example == (<<"A">> :> <<"1">>) @@ (<<"B">> :> (Ref(<<"A">>) \o <<".", "2">>))
           @@ (<<"C">> :> (Ref(<<"B">>) \o <<".", "3">>))

\* C6: against an acyclic table that defines every key referenced,
\* substitute_variables returns the text with every reference replaced by the
\* resolved value of its key, at any nesting depth, so that no reference is
\* left; with A = 1, B = ${A}.2, C = ${B}.3 the text ${C} becomes 1.2.3.
C6_TransitiveResolution ==
    (pc # "call" /\ Acyclic(valuemap) /\ AllDefined(valuemap)
        /\ RefsOf(yaml_content) \subseteq DOMAIN valuemap) =>
        /\ pc = "called"
        /\ subst_ret.ok
        /\ RefsOf(subst_ret.str) = {}
        /\ subst_ret.str = Resolved(yaml_content, valuemap)
        /\ (valuemap = Example /\ yaml_content = Ref(<<"C">>)) =>
              subst_ret.str = <<"1", ".", "2", ".", "3">>

C6_Witness ==
    /\ pc = "called"
    /\ valuemap = Example
    /\ yaml_content = Ref(<<"C">>)
    /\ subst_ret = Returned(<<"1", ".", "2", ".", "3">>)

----------------------------------------------------------------------------
(* Claims about execution *)

\* C1 (as claimed): the executor of every command is invoked once, in the
\* declared order, and execute_commands then returns: no command keeps the
\* later ones from being attempted.
C1_EveryCommandAttempted ==
    /\ \A i \in 1..Len(attempted) : attempted[i].cmd = i
    /\ pc # "aborted"
    /\ pc = "returned" => Len(attempted) = Len(commands)

IsErr(a) == a.res = "Err"
ErrorOf(a) == [msg |-> a.msg, of |-> a.cmd]

\* C2 (as claimed): execute_commands returns for every list; every command
\* has then been executed, the result is Ok exactly if none failed, and
\* otherwise Err with the errors of the failing commands, one each, in the
\* order of the commands.
C2_ErrorsInOrder ==
    /\ pc # "aborted"
    /\ pc = "returned" =>
          LET failed == SelectSeq(attempted, IsErr)
          IN  /\ Len(attempted) = Len(commands)
              /\ \A i \in 1..Len(attempted) : attempted[i].cmd = i
              /\ ret = (IF failed = <<>> THEN "Ok" ELSE "Err")
              /\ errors = [i \in 1..Len(failed) |-> ErrorOf(failed[i])]

\* The paths, relative to dir, of the regular files under dir
RelFiles(dir, f) ==
    {SubSeq(p, Len(dir) + 1, Len(p)) :
        p \in {q \in Files(f) : IsPrefix(dir, q) /\ Len(q) > Len(dir)}}

\* C8 (as claimed): a copy without ignore rules into a fresh destination
\* leaves at the destination the regular files of the source, hidden ones
\* included, at the same relative paths with the same content, and no other.
C8_CopiesEveryFile ==
    (pos = 1 /\ commands[1].type = "Copy" /\ ~commands[1].use_gitignore
        /\ commands[1].destination = <<OutDir>> /\ attempted[1].res = "Ok") =>
        /\ RelFiles(commands[1].destination, fs) = RelFiles(commands[1].source, fs)
        /\ \A rel \in RelFiles(commands[1].source, fs) :
              fs[commands[1].destination \o rel] = fs[commands[1].source \o rel]

ZeroMatch(command, f) ==
    /\ command.type = "Replace"
    /\ RegexValid(command.regex)
    /\ GlobValid(command.source)
    /\ GlobPaths(command.source, f) = <<>>

\* C9: a replace with a valid regex whose glob expands to no path ends with
\* the error "Invalid path. No files found.", never with Ok, and changes no
\* file.
C9_ZeroMatchIsError ==
    [][(pc = "iterate" /\ pos < Len(commands) /\ ZeroMatch(commands[pos + 1], fs)) =>
          /\ fs' = fs
          /\ pc' = "iterate"
          /\ attempted'[pos + 1].res = "Err"
          /\ errors' = Append(errors, [msg |-> "Invalid path. No files found.",
                                       of |-> pos + 1])]_vars

C9_Witness ==
    /\ pos = 1
    /\ ZeroMatch(commands[1], fs)
    /\ FileA \in DOMAIN fs
    /\ attempted[1].res = "Err"
    /\ errors # <<>>

====
